---------------------------- MODULE Spec2Model ----------------------------
(***************************************************************************)
(* A model of mcp-tradovate: the operation registry of                     *)
(* internal/handlers/handlers.go on top of the Tradovate REST client of    *)
(* internal/client (the revision that defines TradovateClientInterface).   *)
(*                                                                         *)
(* One handler invocation is one step.  A step takes the untyped parameter *)
(* map of the request and, when the handler reaches the network, the       *)
(* behaviour of the server for the single HTTP exchange of that call.      *)
(* Spec drives the registry the way its callers do; MainSpec is the        *)
(* process itself, the read-dispatch-write loop of main.                   *)
(*                                                                         *)
(* Conventions.                                                            *)
(*   - a float64 is represented by its double: h stands for h/2, so that   *)
(*     1.5 is 3 and int(1.5) = 1 is Trunc(3);                              *)
(*   - an error is the sequence of the pieces fmt.Errorf concatenates, and *)
(*     <<>> is the nil error;                                              *)
(*   - a Go value held in an interface{} is a record tagged with its       *)
(*     dynamic type.                                                       *)
(***************************************************************************)
EXTENDS Integers, Sequences, FiniteSets, TLC

VARIABLES
    accessToken,    \* TradovateClient.accessToken
    pc,             \* "idle": waiting for a request; "done": a handler has
                    \* returned; "crashed": a handler panicked (no recover)
    call,           \* the invocation that has just run, NoCall when idle
    lastAuth,       \* history: AccessToken of the last Authenticate that
                    \* returned a nil error, "" when none has
    authed,         \* history: some Authenticate has returned a nil error
    mpc,            \* main: "scan" at the top of the loop, "body" with a
                    \* line in hand, "returned" after end of input, "fatal"
                    \* after log.Fatalf
    stdin,          \* history: the lines scanner.Text() has delivered
    stdout,         \* the lines written to standard output
    served,         \* history: what each finished loop iteration invoked
    wire            \* a domain value on its way through json.Marshal and
                    \* json.Unmarshal, NoWire when there is none

vars == <<accessToken, pc, call, lastAuth, authed, mpc, stdin, stdout, served,
          wire>>

\* the state of the registry's caller, and the state of main
callerVars == <<pc, call, lastAuth, authed>>
mainVars == <<mpc, stdin, stdout, served>>
codecVars == <<wire>>

---------------------------------------------------------------------------
(* Bounds *)

\* float64 parameters range over the multiples of 1.5 in
\* -1.5*MaxNum .. 1.5*MaxNum
MaxNum == 1

\* main reads at most this many lines
MaxLines == 2

NumVals == {3 * k : k \in -MaxNum .. MaxNum}

---------------------------------------------------------------------------
(* Go values *)

NoErr == <<>>

Nil == [t |-> "nil"]
NilOf(type) == [t |-> type, isNil |-> TRUE]
ValOf(type, v) == [t |-> type, isNil |-> FALSE, v |-> v]

Num(h) == [t |-> "float64", h |-> h]
Str(s) == [t |-> "string", s |-> s]
Absent == [t |-> "absent"]

\* variant of Trunc: rounding down
Trunc_floor(h) == h \div 2

\* int(f) for a float64 f: truncation toward zero
Trunc(h) == IF h >= 0 THEN h \div 2 ELSE -((-h) \div 2)

\* the map[string]interface{} holding the present entries of r
MkParams(r) == [k \in {f \in DOMAIN r : r[f] # Absent} |-> r[k]]

Has(params, k) == k \in DOMAIN params
\* v, ok := params[k].(float64)
IsFloat64(params, k) == Has(params, k) /\ params[k].t = "float64"
\* v, ok := params[k].(string)
IsString(params, k) == Has(params, k) /\ params[k].t = "string"

---------------------------------------------------------------------------
(* JSON documents on the wire *)

JStr(s) == [j |-> "string", s |-> s]
JNum(h) == [j |-> "number", h |-> h]
JBool(b) == [j |-> "bool", b |-> b]

InvalidJSON == [shape |-> "invalid"]
JObject(o) == [shape |-> "object", o |-> o]
JArray(a) == [shape |-> "array", a |-> a]

\* the zero value of a Go field type
Zero(type) ==
    CASE type = "string" -> JStr("")
      [] type = "bool" -> JBool(FALSE)
      [] OTHER -> JNum(0)

\* encoding/json: does JSON value v decode into a field of this type
Fits(v, type) ==
    CASE type = "string" -> v.j = "string"
      [] type = "bool" -> v.j = "bool"
      [] type = "float64" -> v.j = "number"
      [] OTHER -> v.j = "number" /\ v.h % 2 = 0     \* int, int64

\* the Go value a JSON value decodes to: an int for the integer types,
\* the doubled value for a float64
Plain(v, type) ==
    CASE v.j = "string" -> v.s
      [] v.j = "bool" -> v.b
      [] OTHER -> IF type = "float64" THEN v.h ELSE v.h \div 2

\* json.Unmarshal of one JSON object o into a struct with the given fields:
\* unknown keys are skipped, missing keys leave the zero value, a value of
\* the wrong JSON type is an error.
DecodeObject(o, schema) ==
    [ok |-> \A k \in DOMAIN o \cap DOMAIN schema : Fits(o[k], schema[k]),
     v  |-> [k \in DOMAIN schema |->
                Plain(IF k \in DOMAIN o /\ Fits(o[k], schema[k])
                      THEN o[k] ELSE Zero(schema[k]), schema[k])]]

\* json.NewDecoder(body).Decode(&s) for a struct s
DecodeStruct(body, schema) ==
    IF body.shape # "object"
    THEN [ok |-> FALSE, v |-> DecodeObject(<<>>, schema).v,
          err |-> <<IF body.shape = "invalid"
                    THEN "invalid character"
                    ELSE "json: cannot unmarshal array">>]
    ELSE [ok |-> DecodeObject(body.o, schema).ok,
          v |-> DecodeObject(body.o, schema).v,
          err |-> IF DecodeObject(body.o, schema).ok THEN NoErr
                  ELSE <<"json: cannot unmarshal field">>]

\* json.NewDecoder(body).Decode(&s) for a slice s of structs
DecodeSlice(body, schema) ==
    IF body.shape # "array"
    THEN [ok |-> FALSE, v |-> <<>>,
          err |-> <<IF body.shape = "invalid"
                    THEN "invalid character"
                    ELSE "json: cannot unmarshal object">>]
    ELSE LET items == [i \in DOMAIN body.a |-> DecodeObject(body.a[i], schema)]
         IN IF \A i \in DOMAIN items : items[i].ok
            THEN [ok |-> TRUE, v |-> [i \in DOMAIN items |-> items[i].v],
                  err |-> NoErr]
            ELSE [ok |-> FALSE, v |-> <<>>,
                  err |-> <<"json: cannot unmarshal field">>]

---------------------------------------------------------------------------
(* Wire shapes of the types the client decodes *)

AuthResponse ==
    [accessToken |-> "string", mdAccessToken |-> "string",
     expirationTime |-> "string", userId |-> "int", name |-> "string",
     errorText |-> "string"]

Account ==
    [id |-> "int", name |-> "string", accountType |-> "string",
     active |-> "bool", cashBalance |-> "float64", realizedPnL |-> "float64",
     unrealizedPnL |-> "float64"]

Order ==
    [id |-> "int", accountId |-> "int", contractId |-> "int",
     orderType |-> "string", side |-> "string", price |-> "float64",
     stopPrice |-> "float64", quantity |-> "int", timeInForce |-> "string",
     status |-> "string", filledQty |-> "int", averagePrice |-> "float64",
     createdAt |-> "int64", updatedAt |-> "int64"]

Fill ==
    [id |-> "int", orderId |-> "int", price |-> "float64",
     quantity |-> "int", timestamp |-> "int64"]

Position ==
    [id |-> "int", accountId |-> "int", contractId |-> "int",
     netPos |-> "int", avgPrice |-> "float64", realizedPL |-> "float64",
     unrealizedPL |-> "float64"]

Contract ==
    [id |-> "int", name |-> "string", contractType |-> "string",
     exchange |-> "string", symbol |-> "string"]

MarketData ==
    [contractId |-> "int", bid |-> "float64", ask |-> "float64",
     last |-> "float64", volume |-> "int", timestamp |-> "int64"]

HistoricalData ==
    [contractId |-> "int", timestamp |-> "int64", open |-> "float64",
     high |-> "float64", low |-> "float64", close |-> "float64",
     volume |-> "int"]

RiskLimit ==
    [accountId |-> "int", dayMaxLoss |-> "float64", maxDrawdown |-> "float64",
     maxPositionQty |-> "int", trailingStop |-> "float64"]

\* the zero value of a struct type
ZeroStruct(schema) == DecodeObject(<<>>, schema).v

---------------------------------------------------------------------------
(* The server: what one HTTP exchange can produce *)

Tokens == {"tokA", "tokB"}
ErrorTexts == {"Internal server error", "Invalid credentials"}
Statuses == {200, 201, 401, 500}
NetErrors == {"dial tcp: connection refused", "context deadline exceeded"}

Bodies ==
    {InvalidJSON, JObject(<<>>), JArray(<<>>),
     JArray(<<[id |-> JNum(2)]>>),
     JObject([id |-> JNum(2 * 67890)]),
     JObject([errorText |-> JNum(2)]),
     JObject([id |-> JStr("x")]),
     JObject([accessToken |-> JStr("tokA"),
              errorText |-> JStr("Invalid credentials")])}
    \cup {JObject([errorText |-> JStr(e)]) : e \in ErrorTexts}
    \cup {JObject([accessToken |-> JStr(tk)]) : tk \in Tokens}

NoBody == InvalidJSON

Server ==
    [net : {"ok"}, status : Statuses, body : Bodies]
    \cup [net : NetErrors, status : {0}, body : {NoBody}]

---------------------------------------------------------------------------
(* The API client, TradovateClient *)

NoResponse == [isNil |-> TRUE]

\* variant of Bearer: the token is never attached
Bearer_none(token) == <<>>

\* the Authorization header doRequest sets; <<>> when it sets none
Bearer(token) == IF token # "" THEN <<"Bearer ", token>> ELSE <<>>

\* one HTTP exchange as the client saw it: the request it sent, what the
\* server did, and what the sending function handed to its caller
Exchange(via, method, path, authorization, body, srv, resp, err) ==
    [via |-> via, method |-> method, path |-> path,
     contentType |-> "application/json", authorization |-> authorization,
     body |-> body, srv |-> srv, resp |-> resp, err |-> err]

\* what a client method hands back: its value, its error, the client's
\* accessToken afterwards and the exchanges it made
Returns(ret, err, token, sent) ==
    [ret |-> ret, err |-> err, token |-> token, sent |-> sent]

\* variant of doRequest: the response is handed to the caller whatever its
\* status
doRequest_anyStatus(token, method, endpoint, body, srv) ==
    LET resp ==
            IF srv.net = "ok"
            THEN [isNil |-> FALSE, StatusCode |-> srv.status, Body |-> srv.body]
            ELSE [isNil |-> TRUE]
        err ==
            IF srv.net # "ok"
            THEN <<"error sending request: ", srv.net>>
            ELSE NoErr
    IN [resp |-> resp, err |-> err,
        sent |-> <<[via |-> "doRequest", method |-> method, path |-> endpoint,
                    contentType |-> "application/json",
                    authorization |-> IF token # "" THEN <<"Bearer ", token>>
                                      ELSE <<>>,
                    body |-> body, srv |-> srv, resp |-> resp, err |-> err]>>]

\* variant of doRequest: a request that failed is sent a second time
doRequest_retry(token, method, endpoint, body, srv) ==
    LET resp ==
            IF srv.net = "ok" /\ srv.status < 400
            THEN [isNil |-> FALSE, StatusCode |-> srv.status, Body |-> srv.body]
            ELSE NoResponse
        err ==
            IF srv.net # "ok"
            THEN <<"error sending request: ", srv.net>>
            ELSE IF srv.status >= 400
            THEN IF ~DecodeStruct(srv.body, [errorText |-> "string"]).ok
                 THEN <<"status ", ToString(srv.status)>>
                 ELSE <<"status ", ToString(srv.status), ": ",
                        DecodeStruct(srv.body, [errorText |-> "string"]).v.errorText>>
            ELSE NoErr
        x == Exchange("doRequest", method, endpoint, Bearer(token),
                      body, srv, resp, err)
    IN [resp |-> resp, err |-> err,
        sent |-> IF err # NoErr THEN <<x, x>> ELSE <<x>>]

\* doRequest: build the request, attach the bearer token when one is held,
\* send, and turn a status >= 400 into an error.  (json.Marshal and
\* http.NewRequest cannot fail on the bodies, methods and paths the client
\* methods pass.)
doRequest(token, method, endpoint, body, srv) ==
    LET resp ==
            IF srv.net = "ok" /\ srv.status < 400
            THEN [isNil |-> FALSE, StatusCode |-> srv.status, Body |-> srv.body]
            ELSE NoResponse
        err ==
            IF srv.net # "ok"
            THEN <<"error sending request: ", srv.net>>
            ELSE IF srv.status >= 400
            THEN IF ~DecodeStruct(srv.body, [errorText |-> "string"]).ok
                 THEN <<"status ", ToString(srv.status)>>
                 ELSE <<"status ", ToString(srv.status), ": ",
                        DecodeStruct(srv.body, [errorText |-> "string"]).v.errorText>>
            ELSE NoErr
    IN [resp |-> resp, err |-> err,
        sent |-> <<Exchange("doRequest", method, endpoint, Bearer(token),
                            body, srv, resp, err)>>]

\* variant of storeToken: the token is stored as soon as the body is
\* decoded, before errorText is looked at
storeToken_early(token, authResp, err) ==
    IF authResp.ok THEN authResp.v.accessToken ELSE token

\* c.accessToken after Authenticate: the assignment is reached only when
\* none of the early returns was taken
storeToken(token, authResp, err) ==
    IF err # NoErr THEN token ELSE authResp.v.accessToken

\* variant of Authenticate: a status of 400 or more is an error whatever the
\* body says
Authenticate_checksStatus(token, srv) ==
    LET authResp == DecodeStruct(srv.body, AuthResponse)
        err ==
            IF srv.net # "ok"
            THEN <<"failed to send request: ", srv.net>>
            ELSE IF srv.status >= 400
            THEN <<"authentication failed: status ", ToString(srv.status)>>
            ELSE IF ~authResp.ok
            THEN <<"failed to decode response: ">> \o authResp.err
            ELSE IF authResp.v.errorText # ""
            THEN <<"authentication failed: ", authResp.v.errorText>>
            ELSE NoErr
        sent == <<Exchange("Authenticate", "POST", <<"/auth/accessTokenRequest">>,
                           <<>>, ValOf("AuthRequest", "credentials"), srv,
                           IF srv.net = "ok"
                           THEN [isNil |-> FALSE, StatusCode |-> srv.status,
                                 Body |-> srv.body]
                           ELSE NoResponse,
                           IF srv.net # "ok" THEN <<srv.net>> ELSE NoErr)>>
    IN IF err # NoErr
       THEN Returns(NilOf("*AuthResponse"), err, token, sent)
       ELSE Returns(ValOf("*AuthResponse", authResp.v), NoErr,
                    authResp.v.accessToken, sent)

\* Authenticate: POST the credentials without going through doRequest;
\* the decoded body alone decides the outcome.
Authenticate(token, srv) ==
    LET authResp == DecodeStruct(srv.body, AuthResponse)
        err ==
            IF srv.net # "ok"
            THEN <<"failed to send request: ", srv.net>>
            ELSE IF ~authResp.ok
            THEN <<"failed to decode response: ">> \o authResp.err
            ELSE IF authResp.v.errorText # ""
            THEN <<"authentication failed: ", authResp.v.errorText>>
            ELSE NoErr
        sent == <<Exchange("Authenticate", "POST", <<"/auth/accessTokenRequest">>,
                           <<>>, ValOf("AuthRequest", "credentials"), srv,
                           IF srv.net = "ok"
                           THEN [isNil |-> FALSE, StatusCode |-> srv.status,
                                 Body |-> srv.body]
                           ELSE NoResponse,
                           IF srv.net # "ok" THEN <<srv.net>> ELSE NoErr)>>
    IN IF err # NoErr
       THEN Returns(NilOf("*AuthResponse"), err,
                    storeToken(token, authResp, err), sent)
       ELSE Returns(ValOf("*AuthResponse", authResp.v), NoErr,
                    storeToken(token, authResp, err), sent)

\* variant of decodeInto: a request that failed makes the client forget its
\* token
decodeInto_forgets(r, token, kind, type, schema, what) ==
    IF r.err # NoErr
    THEN Returns(NilOf(type), r.err, "", r.sent)
    ELSE IF kind = "slice"
    THEN IF ~DecodeSlice(r.resp.Body, schema).ok
         THEN Returns(NilOf(type),
                      <<"error decoding ", what, ": ">>
                          \o DecodeSlice(r.resp.Body, schema).err,
                      token, r.sent)
         ELSE Returns(ValOf(type, DecodeSlice(r.resp.Body, schema).v),
                      NoErr, token, r.sent)
    ELSE IF ~DecodeStruct(r.resp.Body, schema).ok
         THEN Returns(NilOf(type),
                      <<"error decoding ", what, ": ">>
                          \o DecodeStruct(r.resp.Body, schema).err,
                      token, r.sent)
         ELSE Returns(ValOf(type, DecodeStruct(r.resp.Body, schema).v),
                      NoErr, token, r.sent)

\* variant of decodeInto: the error of Decode is not looked at
decodeInto_unchecked(r, token, kind, type, schema, what) ==
    IF r.err # NoErr
    THEN Returns(NilOf(type), r.err, token, r.sent)
    ELSE IF kind = "slice"
    THEN Returns(ValOf(type, DecodeSlice(r.resp.Body, schema).v),
                 NoErr, token, r.sent)
    ELSE Returns(ValOf(type, DecodeStruct(r.resp.Body, schema).v),
                 NoErr, token, r.sent)

\* the shape shared by the methods that decode a value: doRequest, then
\* Decode into a slice of, or a pointer to, the domain type
decodeInto(r, token, kind, type, schema, what) ==
    IF r.err # NoErr
    THEN Returns(NilOf(type), r.err, token, r.sent)
    ELSE IF kind = "slice"
    THEN IF ~DecodeSlice(r.resp.Body, schema).ok
         THEN Returns(NilOf(type),
                      <<"error decoding ", what, ": ">>
                          \o DecodeSlice(r.resp.Body, schema).err,
                      token, r.sent)
         ELSE Returns(ValOf(type, DecodeSlice(r.resp.Body, schema).v),
                      NoErr, token, r.sent)
    ELSE IF ~DecodeStruct(r.resp.Body, schema).ok
         THEN Returns(NilOf(type),
                      <<"error decoding ", what, ": ">>
                          \o DecodeStruct(r.resp.Body, schema).err,
                      token, r.sent)
         ELSE Returns(ValOf(type, DecodeStruct(r.resp.Body, schema).v),
                      NoErr, token, r.sent)

\* variant of expectOK: every status below 400 counts as success
expectOK_any2xx(r, token, what) ==
    IF r.err # NoErr
    THEN Returns(Nil, r.err, token, r.sent)
    ELSE Returns(Nil, NoErr, token, r.sent)

\* the shape shared by the methods that return only an error: doRequest,
\* then any status other than 200 is a failure
expectOK(r, token, what) ==
    IF r.err # NoErr
    THEN Returns(Nil, r.err, token, r.sent)
    ELSE IF r.resp.StatusCode # 200
    THEN Returns(Nil, <<"failed to ", what, ": status ",
                        ToString(r.resp.StatusCode)>>, token, r.sent)
    ELSE Returns(Nil, NoErr, token, r.sent)

GetAccounts(token, srv) ==
    decodeInto(doRequest(token, "GET", <<"/account/list">>, Nil, srv),
               token, "slice", "[]Account", Account, "accounts")

GetRiskLimits(token, accountID, srv) ==
    decodeInto(doRequest(token, "GET",
                         <<"/account/riskLimits/", ToString(accountID)>>,
                         Nil, srv),
               token, "ptr", "*RiskLimit", RiskLimit, "risk limits")

SetRiskLimits(token, limits, srv) ==
    expectOK(doRequest(token, "POST", <<"/account/setRiskLimits">>,
                       ValOf("RiskLimit", limits), srv),
             token, "set risk limits")

PlaceOrder(token, order, srv) ==
    decodeInto(doRequest(token, "POST", <<"/order/placeOrder">>,
                         ValOf("Order", order), srv),
               token, "ptr", "*Order", Order, "order response")

CancelOrder(token, orderID, srv) ==
    expectOK(doRequest(token, "DELETE",
                       <<"/order/cancel/", ToString(orderID)>>, Nil, srv),
             token, "cancel order")

GetFills(token, orderID, srv) ==
    decodeInto(doRequest(token, "GET",
                         <<"/fill/list/", ToString(orderID)>>, Nil, srv),
               token, "slice", "[]Fill", Fill, "fills")

GetPositions(token, srv) ==
    decodeInto(doRequest(token, "GET", <<"/position/list">>, Nil, srv),
               token, "slice", "[]Position", Position, "positions")

GetContracts(token, srv) ==
    decodeInto(doRequest(token, "GET", <<"/contract/list">>, Nil, srv),
               token, "slice", "[]Contract", Contract, "contracts")

GetMarketData(token, contractID, srv) ==
    decodeInto(doRequest(token, "GET",
                         <<"/md/getQuote/", ToString(contractID)>>, Nil, srv),
               token, "ptr", "*MarketData", MarketData, "market data")

GetHistoricalData(token, contractID, startTime, endTime, interval, srv) ==
    decodeInto(doRequest(token, "GET", <<"/md/historical">>,
                         ValOf("map[string]interface{}",
                               [contractId |-> contractID,
                                startTime |-> startTime,
                                endTime |-> endTime,
                                interval |-> interval]),
                         srv),
               token, "slice", "[]HistoricalData", HistoricalData,
               "historical data")

---------------------------------------------------------------------------
(* time.Parse(time.RFC3339, s) *)

\* the timestamps of the model that parse, with their Unix seconds; two of
\* them denote the same instant
RFC3339 ==
    ("2024-01-01T00:00:00Z" :> 1704067200)
    @@ ("2024-01-01T01:00:00+01:00" :> 1704067200)
    @@ ("2024-01-02T00:00:00Z" :> 1704153600)

\* variant of ParseRFC3339: any string is taken for a timestamp
ParseRFC3339_lenient(s) ==
    [ok |-> TRUE, unix |-> IF s \in DOMAIN RFC3339 THEN RFC3339[s] ELSE 0,
     err |-> NoErr]

ParseRFC3339(s) ==
    IF s \in DOMAIN RFC3339
    THEN [ok |-> TRUE, unix |-> RFC3339[s], err |-> NoErr]
    ELSE [ok |-> FALSE, unix |-> 0, err |-> <<"parsing time ", s>>]

---------------------------------------------------------------------------
(* The operation registry, NewHandlers *)

\* a client method call as the handler made it
ClientCall(method, args, co) ==
    [method |-> method, args |-> args, ret |-> co.ret, err |-> co.err]

\* what a handler invocation does: whether it panicked, the (result, error)
\* it returned, the client calls it made, the HTTP exchanges those made, and
\* the client's accessToken afterwards
Outcome(panicked, res, err, calls, sent, token) ==
    [panicked |-> panicked, res |-> res, err |-> err, calls |-> calls,
     sent |-> sent, token |-> token]

\* return nil, fmt.Errorf(...) before any client call
Fails(err, token) == Outcome(FALSE, Nil, err, <<>>, <<>>, token)

\* a failed x.(T) without the comma-ok form: a run-time panic that nothing
\* recovers
Panics(token) == Outcome(TRUE, Nil, NoErr, <<>>, <<>>, token)

\* return client.M(args): the method's value and error are the handler's
Delegates(method, args, co) ==
    Outcome(FALSE, co.ret, co.err, <<ClientCall(method, args, co)>>,
            co.sent, co.token)

\* variant of Success: the map says false
Success_false == ValOf("map[string]bool", [success |-> FALSE])

Success == ValOf("map[string]bool", [success |-> TRUE])

handleAuthenticate(params, token, srv) ==
    Delegates("Authenticate", <<>>, Authenticate(token, srv))

handleGetAccounts(params, token, srv) ==
    Delegates("GetAccounts", <<>>, GetAccounts(token, srv))

handleGetPositions(params, token, srv) ==
    Delegates("GetPositions", <<>>, GetPositions(token, srv))

handleGetContracts(params, token, srv) ==
    Delegates("GetContracts", <<>>, GetContracts(token, srv))

requiredFields ==
    <<"accountId", "contractId", "orderType", "quantity", "timeInForce">>

\* variant of FirstMissing: the presence loop is skipped
FirstMissing_none(params, required) == 0

\* the loop over requiredFields: the first one the map does not hold, 0
\* when it holds them all
FirstMissing(params, required) ==
    IF \A i \in DOMAIN required : Has(params, required[i])
    THEN 0
    ELSE CHOOSE i \in DOMAIN required :
            /\ ~Has(params, required[i])
            /\ \A j \in 1 .. (i - 1) : Has(params, required[j])

\* variant of NeedsPrice: the price is required of every order
NeedsPrice_always(orderType) == TRUE

\* variant of NeedsPrice: the price is never required
NeedsPrice_never(orderType) == FALSE

\* if orderType == "Limit": the price is read, and required, only then
NeedsPrice(orderType) == orderType = "Limit"

\* variant of handlePlaceOrder: a numeric price is copied into the order
\* whatever the order type
handlePlaceOrder_readsPrice(params, token, srv) ==
    IF FirstMissing(params, requiredFields) # 0
    THEN Fails(<<"missing required field: ",
                 requiredFields[FirstMissing(params, requiredFields)]>>, token)
    ELSE IF ~IsFloat64(params, "accountId")
    THEN Fails(<<"invalid type assertion for ", "accountId">>, token)
    ELSE IF ~IsFloat64(params, "contractId")
    THEN Fails(<<"invalid type assertion for ", "contractId">>, token)
    ELSE IF ~IsString(params, "orderType")
    THEN Fails(<<"invalid type assertion for ", "orderType">>, token)
    ELSE IF ~IsFloat64(params, "quantity")
    THEN Fails(<<"invalid type assertion for ", "quantity">>, token)
    ELSE IF ~IsString(params, "timeInForce")
    THEN Fails(<<"invalid type assertion for ", "timeInForce">>, token)
    ELSE IF NeedsPrice(params["orderType"].s) /\ ~IsFloat64(params, "price")
    THEN Fails(<<"price", " is required for Limit orders">>, token)
    ELSE LET order ==
                 [ZeroStruct(Order) EXCEPT
                    !.accountId = Trunc(params["accountId"].h),
                    !.contractId = Trunc(params["contractId"].h),
                    !.orderType = params["orderType"].s,
                    !.price = IF IsFloat64(params, "price")
                              THEN params["price"].h ELSE 0,
                    !.quantity = Trunc(params["quantity"].h),
                    !.timeInForce = params["timeInForce"].s]
         IN Delegates("PlaceOrder", <<order>>, PlaceOrder(token, order, srv))

handlePlaceOrder(params, token, srv) ==
    IF FirstMissing(params, requiredFields) # 0
    THEN Fails(<<"missing required field: ",
                 requiredFields[FirstMissing(params, requiredFields)]>>, token)
    ELSE IF ~IsFloat64(params, "accountId")
    THEN Fails(<<"invalid type assertion for ", "accountId">>, token)
    ELSE IF ~IsFloat64(params, "contractId")
    THEN Fails(<<"invalid type assertion for ", "contractId">>, token)
    ELSE IF ~IsString(params, "orderType")
    THEN Fails(<<"invalid type assertion for ", "orderType">>, token)
    ELSE IF ~IsFloat64(params, "quantity")
    THEN Fails(<<"invalid type assertion for ", "quantity">>, token)
    ELSE IF ~IsString(params, "timeInForce")
    THEN Fails(<<"invalid type assertion for ", "timeInForce">>, token)
    ELSE IF NeedsPrice(params["orderType"].s) /\ ~IsFloat64(params, "price")
    THEN Fails(<<"price", " is required for Limit orders">>, token)
    ELSE LET order ==
                 [ZeroStruct(Order) EXCEPT
                    !.accountId = Trunc(params["accountId"].h),
                    !.contractId = Trunc(params["contractId"].h),
                    !.orderType = params["orderType"].s,
                    !.price = IF NeedsPrice(params["orderType"].s)
                              THEN params["price"].h ELSE 0,
                    !.quantity = Trunc(params["quantity"].h),
                    !.timeInForce = params["timeInForce"].s]
         IN Delegates("PlaceOrder", <<order>>, PlaceOrder(token, order, srv))

\* variant of handleCancelOrder: the error of client.CancelOrder is dropped
handleCancelOrder_swallows(params, token, srv) ==
    IF ~IsFloat64(params, "orderId")
    THEN Panics(token)
    ELSE [Delegates("CancelOrder", <<Trunc(params["orderId"].h)>>,
                    CancelOrder(token, Trunc(params["orderId"].h), srv))
            EXCEPT !.res = Success, !.err = NoErr]

handleCancelOrder(params, token, srv) ==
    IF ~IsFloat64(params, "orderId")
    THEN Panics(token)
    ELSE LET orderID == Trunc(params["orderId"].h)
             d == Delegates("CancelOrder", <<orderID>>,
                            CancelOrder(token, orderID, srv))
         IN IF d.err # NoErr
            THEN [d EXCEPT !.res = Nil]
            ELSE [d EXCEPT !.res = Success]

handleGetFills(params, token, srv) ==
    IF ~IsFloat64(params, "orderId")
    THEN Panics(token)
    ELSE Delegates("GetFills", <<Trunc(params["orderId"].h)>>,
                   GetFills(token, Trunc(params["orderId"].h), srv))

handleGetMarketData(params, token, srv) ==
    IF ~IsFloat64(params, "contractId")
    THEN Panics(token)
    ELSE Delegates("GetMarketData", <<Trunc(params["contractId"].h)>>,
                   GetMarketData(token, Trunc(params["contractId"].h), srv))

handleGetHistoricalData(params, token, srv) ==
    IF ~IsString(params, "startTime")
    THEN Panics(token)
    ELSE IF ~ParseRFC3339(params["startTime"].s).ok
    THEN Fails(<<"invalid start time: ">>
                   \o ParseRFC3339(params["startTime"].s).err, token)
    ELSE IF ~IsString(params, "endTime")
    THEN Panics(token)
    ELSE IF ~ParseRFC3339(params["endTime"].s).ok
    THEN Fails(<<"invalid end time: ">>
                   \o ParseRFC3339(params["endTime"].s).err, token)
    ELSE IF ~IsFloat64(params, "contractId") \/ ~IsString(params, "interval")
    THEN Panics(token)
    ELSE LET contractID == Trunc(params["contractId"].h)
             startTime == ParseRFC3339(params["startTime"].s).unix
             endTime == ParseRFC3339(params["endTime"].s).unix
             interval == params["interval"].s
         IN Delegates("GetHistoricalData",
                      <<contractID, startTime, endTime, interval>>,
                      GetHistoricalData(token, contractID, startTime, endTime,
                                        interval, srv))

\* variant of BadLimit: the sign of the limit is not checked
BadLimit_unsigned(params, k) == ~IsFloat64(params, k)

\* v, ok := params[k].(float64); !ok || v < 0
BadLimit(params, k) == ~IsFloat64(params, k) \/ params[k].h < 0

\* variant of handleSetRiskLimits: a negative accountId is refused like a
\* negative limit
handleSetRiskLimits_signedAccount(params, token, srv) ==
    IF BadLimit(params, "accountId")
    THEN Fails(<<"missing or invalid ", "accountId">>, token)
    ELSE IF BadLimit(params, "dayMaxLoss")
    THEN Fails(<<"missing or invalid ", "dayMaxLoss">>, token)
    ELSE IF BadLimit(params, "maxDrawdown")
    THEN Fails(<<"missing or invalid ", "maxDrawdown">>, token)
    ELSE IF BadLimit(params, "maxPositionQty")
    THEN Fails(<<"missing or invalid ", "maxPositionQty">>, token)
    ELSE IF BadLimit(params, "trailingStop")
    THEN Fails(<<"missing or invalid ", "trailingStop">>, token)
    ELSE LET limits ==
                 [accountId |-> Trunc(params["accountId"].h),
                  dayMaxLoss |-> params["dayMaxLoss"].h,
                  maxDrawdown |-> params["maxDrawdown"].h,
                  maxPositionQty |-> Trunc(params["maxPositionQty"].h),
                  trailingStop |-> params["trailingStop"].h]
             d == Delegates("SetRiskLimits", <<limits>>,
                            SetRiskLimits(token, limits, srv))
         IN [d EXCEPT !.res = Nil]

handleSetRiskLimits(params, token, srv) ==
    IF ~IsFloat64(params, "accountId")
    THEN Fails(<<"missing or invalid ", "accountId">>, token)
    ELSE IF BadLimit(params, "dayMaxLoss")
    THEN Fails(<<"missing or invalid ", "dayMaxLoss">>, token)
    ELSE IF BadLimit(params, "maxDrawdown")
    THEN Fails(<<"missing or invalid ", "maxDrawdown">>, token)
    ELSE IF BadLimit(params, "maxPositionQty")
    THEN Fails(<<"missing or invalid ", "maxPositionQty">>, token)
    ELSE IF BadLimit(params, "trailingStop")
    THEN Fails(<<"missing or invalid ", "trailingStop">>, token)
    ELSE LET limits ==
                 [accountId |-> Trunc(params["accountId"].h),
                  dayMaxLoss |-> params["dayMaxLoss"].h,
                  maxDrawdown |-> params["maxDrawdown"].h,
                  maxPositionQty |-> Trunc(params["maxPositionQty"].h),
                  trailingStop |-> params["trailingStop"].h]
             d == Delegates("SetRiskLimits", <<limits>>,
                            SetRiskLimits(token, limits, srv))
         IN [d EXCEPT !.res = Nil]

handleGetRiskLimits(params, token, srv) ==
    IF ~IsFloat64(params, "accountId")
    THEN Panics(token)
    ELSE Delegates("GetRiskLimits", <<Trunc(params["accountId"].h)>>,
                   GetRiskLimits(token, Trunc(params["accountId"].h), srv))

\* handlers[op].Handler(params)
NewHandlers(op, params, token, srv) ==
    CASE op = "authenticate" -> handleAuthenticate(params, token, srv)
      [] op = "getAccounts" -> handleGetAccounts(params, token, srv)
      [] op = "getPositions" -> handleGetPositions(params, token, srv)
      [] op = "placeOrder" -> handlePlaceOrder(params, token, srv)
      [] op = "cancelOrder" -> handleCancelOrder(params, token, srv)
      [] op = "getFills" -> handleGetFills(params, token, srv)
      [] op = "getContracts" -> handleGetContracts(params, token, srv)
      [] op = "getMarketData" -> handleGetMarketData(params, token, srv)
      [] op = "getHistoricalData" -> handleGetHistoricalData(params, token, srv)
      [] op = "setRiskLimits" -> handleSetRiskLimits(params, token, srv)
      [] op = "getRiskLimits" -> handleGetRiskLimits(params, token, srv)

Operations ==
    {"authenticate", "getAccounts", "getPositions", "placeOrder",
     "cancelOrder", "getFills", "getContracts", "getMarketData",
     "getHistoricalData", "setRiskLimits", "getRiskLimits"}

---------------------------------------------------------------------------
(* Requests: the parameter maps a caller can pass *)

OptFloat == {Absent, Str("invalid")} \cup {Num(h) : h \in NumVals}
OptOrderType == {Absent, Str("Limit"), Str("Market"), Num(0)}
OptTimeInForce == {Absent, Str("Day"), Num(0)}
OptTime == {Absent, Num(0), Str("invalid")} \cup {Str(s) : s \in DOMAIN RFC3339}
OptInterval == {Absent, Str("1h"), Num(0)}

Inputs(op) ==
    CASE op = "placeOrder" ->
            [accountId : OptFloat, contractId : OptFloat,
             orderType : OptOrderType, quantity : OptFloat,
             timeInForce : OptTimeInForce, price : OptFloat]
      [] op = "setRiskLimits" ->
            [accountId : OptFloat, dayMaxLoss : OptFloat,
             maxDrawdown : OptFloat, maxPositionQty : OptFloat,
             trailingStop : OptFloat]
      [] op = "getHistoricalData" ->
            [contractId : OptFloat, startTime : OptTime, endTime : OptTime,
             interval : OptInterval]
      [] op \in {"cancelOrder", "getFills"} -> [orderId : OptFloat]
      [] op = "getMarketData" -> [contractId : OptFloat]
      [] op = "getRiskLimits" -> [accountId : OptFloat]
      [] OTHER -> {<<>>}

---------------------------------------------------------------------------
(* The state machine *)

NoWire ==
    [stage |-> "none", type |-> "none", value |-> <<>>, data |-> <<>>,
     decoded |-> <<>>, err |-> NoErr]

NoCall ==
    [op |-> "none", params |-> <<>>, tokenBefore |-> "", panicked |-> FALSE,
     res |-> Nil, err |-> NoErr, calls |-> <<>>, sent |-> <<>>]

Init ==
    /\ accessToken = ""
    /\ pc = "idle"
    /\ call = NoCall
    /\ lastAuth = ""
    /\ authed = FALSE
    /\ mpc = "scan"
    /\ stdin = <<>>
    /\ stdout = <<>>
    /\ served = <<>>
    /\ wire = NoWire

\* a server that is never asked: stands for the network in the invocations
\* that send nothing
Unreached == [net |-> "ok", status |-> 200, body |-> NoBody]

\* the server behaviours that make a difference to this invocation
ServerFor(op, params, token) ==
    IF NewHandlers(op, params, token, Unreached).sent = <<>>
    THEN {Unreached}
    ELSE Server

\* the Authenticate calls of an invocation that returned a nil error
Authenticated(out) ==
    {i \in DOMAIN out.calls :
        out.calls[i].method = "Authenticate" /\ out.calls[i].err = NoErr}

\* the effect of one invocation on the state
Finish(op, params, out) ==
    /\ call' = [op |-> op, params |-> params, tokenBefore |-> accessToken,
                panicked |-> out.panicked, res |-> out.res, err |-> out.err,
                calls |-> out.calls, sent |-> out.sent]
    /\ accessToken' = out.token
    /\ pc' = IF out.panicked THEN "crashed" ELSE "done"
    /\ lastAuth' = IF Authenticated(out) # {}
                   THEN out.calls[CHOOSE i \in Authenticated(out) : TRUE].ret.v.accessToken
                   ELSE lastAuth
    /\ authed' = (authed \/ Authenticated(out) # {})
    /\ UNCHANGED mainVars
    /\ UNCHANGED codecVars

\* handlers[op].Handler(params), from the call to its return
Invoke(op) ==
    \E r \in Inputs(op) :
       \E srv \in ServerFor(op, MkParams(r), accessToken) :
          Finish(op, MkParams(r),
                 NewHandlers(op, MkParams(r), accessToken, srv))

authenticate ==
    /\ pc = "idle"
    /\ Invoke("authenticate")

getAccounts ==
    /\ pc = "idle"
    /\ Invoke("getAccounts")

getPositions ==
    /\ pc = "idle"
    /\ Invoke("getPositions")

placeOrder ==
    /\ pc = "idle"
    /\ Invoke("placeOrder")

cancelOrder ==
    /\ pc = "idle"
    /\ Invoke("cancelOrder")

getFills ==
    /\ pc = "idle"
    /\ Invoke("getFills")

getContracts ==
    /\ pc = "idle"
    /\ Invoke("getContracts")

getMarketData ==
    /\ pc = "idle"
    /\ Invoke("getMarketData")

getHistoricalData ==
    /\ pc = "idle"
    /\ Invoke("getHistoricalData")

setRiskLimits ==
    /\ pc = "idle"
    /\ Invoke("setRiskLimits")

getRiskLimits ==
    /\ pc = "idle"
    /\ Invoke("getRiskLimits")


\* the caller takes the (result, error) pair and is ready for the next
\* request
Return ==
    /\ pc = "done"
    /\ pc' = "idle"
    /\ call' = NoCall
    /\ UNCHANGED <<accessToken, lastAuth, authed>>
    /\ UNCHANGED mainVars
    /\ UNCHANGED codecVars

Next ==
    \/ authenticate
    \/ getAccounts
    \/ getPositions
    \/ placeOrder
    \/ cancelOrder
    \/ getFills
    \/ getContracts
    \/ getMarketData
    \/ getHistoricalData
    \/ setRiskLimits
    \/ getRiskLimits
    \/ Return

Spec == Init /\ [][Next]_vars

---------------------------------------------------------------------------
(* The process: main, reading requests from standard input *)

\* the fields json.Unmarshal fills in a Request; Params is a json.RawMessage,
\* which takes any value and which main never reads
Request == [id |-> "string", method |-> "string"]

Ids == {"1", "2"}

\* the methods a request line can name: the registered operations, ping,
\* and a name nothing knows
Methods == Operations \cup {"ping", "subscribe"}

\* the lines the scanner can deliver: requests, objects with a field of
\* the wrong type or with no field at all, a JSON array, and text that is
\* not JSON
Lines ==
    {JObject([id |-> JStr("1"), method |-> JStr(m)]) : m \in Methods}
    \cup {JObject([id |-> JStr(i), method |-> JStr("ping")]) : i \in Ids}
    \cup {JObject([id |-> JStr("2"), method |-> JStr("cancelOrder"),
                   params |-> JObject(<<>>)])}
    \cup {JObject([id |-> JStr("1"), method |-> JNum(2)]),
          JObject([id |-> JNum(2), method |-> JStr("ping")]),
          JObject(<<>>), JArray(<<>>), InvalidJSON}

\* how scanner.Scan() can return false: at end of input with a nil Err(),
\* or with an error, which a line longer than bufio.MaxScanTokenSize is
ScanEnds == {NoErr, <<"bufio.Scanner: token too long">>, <<"read /dev/stdin: input/output error">>}

\* json.NewEncoder(os.Stdout).Encode(resp) for a Response: id always,
\* result and error only when not nil (omitempty)
Encode(resp) ==
    [k \in {"id"} \cup (IF resp.Result # Nil THEN {"result"} ELSE {})
                 \cup (IF resp.Error # Nil THEN {"error"} ELSE {}) |->
        CASE k = "id" -> resp.ID
          [] k = "result" -> resp.Result
          [] OTHER -> resp.Error]

\* sendResponse: the line it writes
sendResponse(id, result) ==
    <<Encode([ID |-> id, Result |-> result, Error |-> Nil])>>

\* variant of sendError: nothing is written
sendError_silent(id, code, message) == <<>>

\* variant of sendError: the message is sent as a result
sendError_asResult(id, code, message) ==
    sendResponse(id, ValOf("string", message))

\* sendError: the line it writes
sendError(id, code, message) ==
    <<Encode([ID |-> id, Result |-> Nil,
              Error |-> [code |-> code, message |-> message]])>>

\* what one iteration of the loop did: the lines it wrote, the handler it
\* dispatched to, the client calls and HTTP exchanges made, and the
\* client's accessToken afterwards
Iteration(out, handler, calls, sent, token) ==
    [out |-> out, handler |-> handler, calls |-> calls, sent |-> sent,
     token |-> token]

\* main's handleAuthenticate: tradovateClient.Authenticate(), then an
\* error 401 or the authenticated response
main_handleAuthenticate(reqID, token, srv) ==
    LET co == Authenticate(token, srv)
    IN Iteration(
          IF co.err # NoErr
          THEN sendError(reqID, 401, <<"Authentication failed: ">> \o co.err)
          ELSE sendResponse(reqID,
                  ValOf("map[string]interface{}",
                        [status |-> "authenticated",
                         token |-> co.ret.v.accessToken,
                         mdToken |-> co.ret.v.mdAccessToken,
                         userId |-> co.ret.v.userId,
                         name |-> co.ret.v.name,
                         expirationTime |-> co.ret.v.expirationTime])),
          "handleAuthenticate",
          <<ClientCall("Authenticate", <<>>, co)>>, co.sent, co.token)

\* the body of the loop for one line: parse the request, switch on its
\* method, write the response
mainBody(text, token, srv) ==
    LET req == DecodeStruct(text, Request)
    IN IF ~req.ok
       THEN Iteration(sendError(req.v.id, 400,
                                <<"Invalid request: ">> \o req.err),
                      "none", <<>>, <<>>, token)
       ELSE CASE req.v.method = "ping" ->
                   Iteration(sendResponse(req.v.id, ValOf("string", "pong")),
                             "none", <<>>, <<>>, token)
              [] req.v.method = "authenticate" ->
                   main_handleAuthenticate(req.v.id, token, srv)
              [] OTHER ->
                   Iteration(sendError(req.v.id, 404,
                                       <<"Unknown method: ", req.v.method>>),
                             "none", <<>>, <<>>, token)

\* the answers to main's Authenticate the process is run against: a
\* timeout, a 200 with a body that is not JSON or has a token, and a 401
\* with an errorText
MainServer ==
    {srv \in Server :
        \/ srv.net = "context deadline exceeded"
        \/ /\ srv.net = "ok"
           /\ srv.status = 200
           /\ srv.body \in {InvalidJSON,
                            JObject([accessToken |-> JStr("tokA")])}
        \/ /\ srv.net = "ok"
           /\ srv.status = 401
           /\ srv.body = JObject([errorText |-> JStr("Invalid credentials")])}

\* the server behaviours that make a difference to this iteration
ServerForLine(text, token) ==
    IF mainBody(text, token, Unreached).sent = <<>>
    THEN {Unreached}
    ELSE MainServer

\* scanner.Scan() returns true: the next line is in hand
scan ==
    /\ mpc = "scan"
    /\ Len(stdin) < MaxLines
    /\ \E text \in Lines : stdin' = Append(stdin, text)
    /\ mpc' = "body"
    /\ UNCHANGED <<accessToken, stdout, served>>
    /\ UNCHANGED callerVars
    /\ UNCHANGED codecVars

\* variant of serve: the loop body never comes back, as with an HTTP call
\* that neither completes nor times out
serve_hangs ==
    /\ mpc = "body"
    /\ UNCHANGED vars

\* the loop body, from json.Unmarshal to the write of the response
serve ==
    /\ mpc = "body"
    /\ \E srv \in ServerForLine(stdin[Len(stdin)], accessToken) :
          LET it == mainBody(stdin[Len(stdin)], accessToken, srv)
          IN /\ stdout' = stdout \o it.out
             /\ served' = Append(served, [handler |-> it.handler,
                                          calls |-> it.calls,
                                          sent |-> it.sent])
             /\ accessToken' = it.token
    /\ mpc' = "scan"
    /\ UNCHANGED stdin
    /\ UNCHANGED callerVars
    /\ UNCHANGED codecVars

\* scanner.Scan() returns false: main returns at end of input, and exits
\* through log.Fatalf when scanner.Err() is not nil
stop ==
    /\ mpc = "scan"
    /\ \E err \in ScanEnds :
          mpc' = IF err = NoErr THEN "returned" ELSE "fatal"
    /\ UNCHANGED <<accessToken, stdin, stdout, served>>
    /\ UNCHANGED callerVars
    /\ UNCHANGED codecVars

MainNext ==
    \/ scan
    \/ serve
    \/ stop

MainSpec == Init /\ [][MainNext]_vars

\* main as it runs: the loop body, once entered, runs to its end, every
\* HTTP call being cut off by the client's Timeout of 10 seconds; and
\* standard input delivers its next line or its end
MainLive ==
    /\ MainSpec
    /\ WF_vars(serve)
    /\ WF_vars(scan \/ stop)

---------------------------------------------------------------------------
(* The wire format of the domain types: json.Marshal, json.Unmarshal *)

\* the domain types of package models, by name
Entities ==
    [Account |-> Account, Order |-> Order, Fill |-> Fill,
     Position |-> Position, Contract |-> Contract, MarketData |-> MarketData,
     HistoricalData |-> HistoricalData, RiskLimit |-> RiskLimit]

\* the fields tagged omitempty
OmitEmpty(type) == IF type = "Order" THEN {"id", "stopPrice"} ELSE {}

\* two non-zero sample values of each field type: 67890 and -1, 100.5 and
\* -1.5, two strings, true
Sample(ftype, n) ==
    CASE ftype = "string" -> IF n = 1 THEN "Limit" ELSE "Day"
      [] ftype = "bool" -> TRUE
      [] ftype = "float64" -> IF n = 1 THEN 201 ELSE -3
      [] OTHER -> IF n = 1 THEN 67890 ELSE -1

\* the values of a domain type: every choice of the fields left at their
\* zero value, the others holding a sample
Values(type) ==
    {[f \in DOMAIN Entities[type] |->
         IF f \in z THEN ZeroStruct(Entities[type])[f]
         ELSE Sample(Entities[type][f], n)] :
       z \in SUBSET DOMAIN Entities[type], n \in {1, 2}}

\* variant of ToJSON: a float64 is written without its fraction
ToJSON_integral(x, ftype) ==
    CASE ftype = "string" -> JStr(x)
      [] ftype = "bool" -> JBool(x)
      [] ftype = "float64" -> JNum(2 * Trunc(x))
      [] OTHER -> JNum(2 * x)

\* the JSON value json.Marshal writes for a field
ToJSON(x, ftype) ==
    CASE ftype = "string" -> JStr(x)
      [] ftype = "bool" -> JBool(x)
      [] ftype = "float64" -> JNum(x)
      [] OTHER -> JNum(2 * x)

\* json.Marshal(v) for a value of a domain type: one key per field, a
\* field tagged omitempty being left out when it holds its zero value
Marshal(v, type) ==
    JObject([f \in {g \in DOMAIN v :
                      g \in OmitEmpty(type) =>
                         v[g] # ZeroStruct(Entities[type])[g]} |->
                ToJSON(v[f], Entities[type][f])])

\* json.Marshal of a value
marshal ==
    /\ wire.stage = "none"
    /\ \E type \in DOMAIN Entities :
          \E v \in Values(type) :
             wire' = [stage |-> "encoded", type |-> type, value |-> v,
                      data |-> Marshal(v, type), decoded |-> <<>>,
                      err |-> NoErr]
    /\ UNCHANGED <<accessToken, callerVars, mainVars>>

\* json.Unmarshal of the bytes into a fresh value of the same type
unmarshal ==
    /\ wire.stage = "encoded"
    /\ wire' = [wire EXCEPT
                  !.stage = "decoded",
                  !.decoded = DecodeStruct(wire.data, Entities[wire.type]).v,
                  !.err = DecodeStruct(wire.data, Entities[wire.type]).err]
    /\ UNCHANGED <<accessToken, callerVars, mainVars>>

CodecNext ==
    \/ marshal
    \/ unmarshal

CodecSpec == Init /\ [][CodecNext]_vars

---------------------------------------------------------------------------
(* Vocabulary of the properties *)

\* the error message contains this piece (a field name, a status, a text)
Names(err, piece) == \E i \in DOMAIN err : err[i] = piece

\* a handler has run and its invocation is on record
Invoked(op) == pc # "idle" /\ call.op = op

\* the invocation came back with (result, error) and did not panic
Returned == pc = "done" /\ ~call.panicked

\* nothing of the invocation reached the client or the network
NoClientCall == call.calls = <<>> /\ call.sent = <<>>

\* the errors the registry produces itself, by the head of their message
IsValidationError(err) ==
    /\ err # NoErr
    /\ \/ err[1] \in {"missing required field: ", "invalid type assertion for ",
                      "missing or invalid ", "invalid start time: ",
                      "invalid end time: "}
       \/ err = <<"price", " is required for Limit orders">>

\* the required parameters of each operation that has some, in the order
\* the operation declares them
Required(op) ==
    CASE op = "placeOrder" ->
            <<"accountId", "contractId", "orderType", "quantity", "timeInForce">>
      [] op = "setRiskLimits" ->
            <<"accountId", "dayMaxLoss", "maxDrawdown", "maxPositionQty",
              "trailingStop">>
      [] op = "getHistoricalData" ->
            <<"contractId", "startTime", "endTime", "interval">>
      [] op \in {"cancelOrder", "getFills"} -> <<"orderId">>
      [] op = "getMarketData" -> <<"contractId">>
      [] op = "getRiskLimits" -> <<"accountId">>
      [] OTHER -> <<>>

StringFields == {"orderType", "timeInForce", "startTime", "endTime", "interval"}
TimeFields == {"startTime", "endTime"}

\* parameter f is present with a value of the type the operation documents
WellTyped(params, f) ==
    /\ Has(params, f)
    /\ params[f].t = (IF f \in StringFields THEN "string" ELSE "float64")

\* parameter f is present, well typed, and acceptable on its own: a number
\* is not negative, a timestamp parses
WellFormed(params, f) ==
    /\ WellTyped(params, f)
    /\ f \notin StringFields => params[f].h >= 0
    /\ f \in TimeFields => params[f].s \in DOMAIN RFC3339

\* the fields of a sequence, as a set
Range(seq) == {seq[i] : i \in DOMAIN seq}

\* the first field of the sequence that satisfies P(f); "" when none does
First(seq, P(_)) ==
    IF \E i \in DOMAIN seq : P(seq[i])
    THEN seq[CHOOSE i \in DOMAIN seq :
                P(seq[i]) /\ \A j \in 1 .. (i - 1) : ~P(seq[j])]
    ELSE ""

---------------------------------------------------------------------------
(* C1 *)

\* C1: for every operation with required parameters and every required
\* parameter f, an invocation whose map omits f (here even in the most
\* favourable case: f is the only omission and every other required
\* parameter is well formed) returns an error naming f without calling the
\* client.  The handlers that read their parameter with a bare type
\* assertion panic instead of returning.
C1_OmittedFieldReported ==
    \A f \in Range(Required(call.op)) :
        ( /\ pc # "idle"
          /\ ~Has(call.params, f)
          /\ \A g \in Range(Required(call.op)) \ {f} : WellFormed(call.params, g) )
        => /\ Returned
           /\ call.err # NoErr
           /\ Names(call.err, f)
           /\ NoClientCall

---------------------------------------------------------------------------
(* C2 *)

\* the five required parameters of placeOrder are present and well typed
FiveWellTyped(params) ==
    \A g \in Range(Required("placeOrder")) : WellTyped(params, g)

\* C2: placeOrder with the five required parameters present and well typed
\* and no price: a Limit order is refused with the missing-price error and
\* the client is not called; a Market order goes to client.PlaceOrder and
\* the handler returns what it returned.
C2_PriceRequiredForLimitOnly ==
    ( /\ Invoked("placeOrder")
      /\ FiveWellTyped(call.params)
      /\ ~Has(call.params, "price") )
    => /\ Returned
       /\ call.params["orderType"].s = "Limit" =>
             /\ call.err = <<"price", " is required for Limit orders">>
             /\ call.res = Nil
             /\ NoClientCall
       /\ call.params["orderType"].s = "Market" =>
             /\ Len(call.calls) = 1
             /\ call.calls[1].method = "PlaceOrder"
             /\ call.res = call.calls[1].ret
             /\ call.err = call.calls[1].err
             /\ ~IsValidationError(call.err)

\* a Limit order without price has been refused
C2_Witness ==
    /\ Invoked("placeOrder")
    /\ FiveWellTyped(call.params)
    /\ ~Has(call.params, "price")
    /\ call.params["orderType"].s = "Limit"
    /\ call.err = <<"price", " is required for Limit orders">>

---------------------------------------------------------------------------
(* C3 *)

\* C3: placeOrder validates presence first, types second, the price rule
\* last: a missing required field is reported (the first one in declaration
\* order) whatever the types of the others; with all five present a wrongly
\* typed one is reported even if a Limit price is missing as well; only a
\* request with all five present and well typed gets the price error.
C3_ValidationOrder ==
    Invoked("placeOrder") =>
    LET required == Required("placeOrder")
        IsMissing(f) == ~Has(call.params, f)
        IsMistyped(f) == ~WellTyped(call.params, f)
    IN /\ (\E f \in Range(required) : IsMissing(f)) =>
             /\ Returned
             /\ call.err = <<"missing required field: ", First(required, IsMissing)>>
             /\ NoClientCall
       /\ ( /\ \A f \in Range(required) : ~IsMissing(f)
            /\ \E f \in Range(required) : IsMistyped(f) ) =>
             /\ Returned
             /\ Len(call.err) = 2
             /\ call.err[1] = "invalid type assertion for "
             /\ call.err[2] \in Range(required)
             /\ IsMistyped(call.err[2])
             /\ NoClientCall
       /\ (Returned /\ call.err = <<"price", " is required for Limit orders">>) =>
             /\ FiveWellTyped(call.params)
             /\ call.params["orderType"].s = "Limit"
             /\ NoClientCall

\* a request with a missing field, a wrongly typed field and no Limit price
\* has been answered with the missing field
C3_Witness ==
    /\ Invoked("placeOrder")
    /\ Has(call.params, "accountId") /\ ~WellTyped(call.params, "accountId")
    /\ ~Has(call.params, "quantity")
    /\ IsString(call.params, "orderType")
    /\ call.params["orderType"].s = "Limit"
    /\ ~Has(call.params, "price")
    /\ call.err = <<"missing required field: ", "quantity">>

---------------------------------------------------------------------------
(* C4 *)

Limits == <<"dayMaxLoss", "maxDrawdown", "maxPositionQty", "trailingStop">>

IsNegative(params, f) == IsFloat64(params, f) /\ params[f].h < 0

\* the second half of C4: four limits that are present and not negative go
\* to client.SetRiskLimits, once, and no validation error comes back
AcceptedLimitsReachClient ==
    ( /\ Invoked("setRiskLimits")
      /\ IsFloat64(call.params, "accountId")
      /\ \A f \in Range(Limits) : WellFormed(call.params, f) )
    => /\ Returned
       /\ Len(call.calls) = 1
       /\ call.calls[1].method = "SetRiskLimits"
       /\ Len(call.sent) = 1
       /\ ~IsValidationError(call.err)

\* C4 as stated: setRiskLimits with a numeric accountId returns, for each
\* limit that is negative, an error naming that limit, and does not call
\* the client; four limits that are present and not negative reach the
\* client once.  Refuted by a map with two bad limits: only the first is
\* named.
C4_EveryNegativeLimitNamed ==
    /\ ( Invoked("setRiskLimits") /\ IsFloat64(call.params, "accountId") ) =>
          \A f \in Range(Limits) :
             IsNegative(call.params, f) =>
                /\ Returned
                /\ call.err # NoErr
                /\ Names(call.err, f)
                /\ NoClientCall
    /\ AcceptedLimitsReachClient

\* C4 as amended: setRiskLimits with a numeric accountId and some negative
\* limit returns an error and does not call the client; the error names the
\* first of dayMaxLoss, maxDrawdown, maxPositionQty, trailingStop that is
\* missing, not a number or negative (so the negative limit itself when the
\* limits before it are acceptable); four limits that are present and not
\* negative reach the client once.
C4_FirstBadLimitNamed ==
    /\ ( /\ Invoked("setRiskLimits")
         /\ IsFloat64(call.params, "accountId")
         /\ \E f \in Range(Limits) : IsNegative(call.params, f) ) =>
          LET Bad(f) == ~WellFormed(call.params, f)
          IN /\ Returned
             /\ call.err = <<"missing or invalid ", First(Limits, Bad)>>
             /\ call.res = Nil
             /\ NoClientCall
    /\ AcceptedLimitsReachClient

\* a request with two negative limits has been refused
C4_Witness ==
    /\ Invoked("setRiskLimits")
    /\ IsFloat64(call.params, "accountId")
    /\ IsNegative(call.params, "dayMaxLoss")
    /\ IsNegative(call.params, "trailingStop")
    /\ call.err = <<"missing or invalid ", "dayMaxLoss">>

---------------------------------------------------------------------------
(* C5 *)

\* what each operation checks of its parameters before it may delegate
PassesValidation(op, params) ==
    CASE op = "placeOrder" ->
            /\ FiveWellTyped(params)
            /\ params["orderType"].s = "Limit" => IsFloat64(params, "price")
      [] op = "setRiskLimits" ->
            /\ IsFloat64(params, "accountId")
            /\ \A f \in Range(Limits) : WellFormed(params, f)
      [] op = "getHistoricalData" ->
            /\ \A f \in Range(Required(op)) : WellTyped(params, f)
            /\ \A f \in TimeFields : WellFormed(params, f)
      [] OTHER -> \A f \in Range(Required(op)) : WellTyped(params, f)

\* C5: an invocation that returns a validation error (missing field, wrong
\* type, missing price, out-of-range limit, unparsable timestamp) has made
\* no client call and sent nothing; the client is called only once the
\* operation's validation has passed, and then the handler returns no
\* validation error.
C5_ValidationBeforeClient ==
    pc # "idle" =>
       /\ IsValidationError(call.err) =>
             /\ Returned
             /\ call.res = Nil
             /\ NoClientCall
       /\ (call.calls # <<>> \/ call.sent # <<>>) =>
             /\ PassesValidation(call.op, call.params)
             /\ ~IsValidationError(call.err)

\* an unparsable endTime has been refused without a client call
C5_Witness ==
    /\ Invoked("getHistoricalData")
    /\ Returned
    /\ call.err[1] = "invalid end time: "
    /\ NoClientCall

---------------------------------------------------------------------------
(* C6 *)

\* C6 as stated: once an Authenticate has succeeded and stored T, every
\* request the client sends afterwards, for any operation, carries
\* Authorization: Bearer T (until the next success replaces T).  Refuted by
\* the request of a later Authenticate, which carries no Authorization
\* header, and by a stored token that is empty.
C6_EveryRequestCarriesToken ==
    [][ (authed /\ pc = "idle") =>
           \A i \in DOMAIN call'.sent :
              call'.sent[i].authorization = <<"Bearer ", lastAuth>> ]_vars

\* C6 as amended: once an Authenticate has succeeded and stored T, every
\* request sent afterwards through doRequest (that is, for every operation
\* other than authenticate) carries Authorization: Bearer T when T is not
\* empty, until the next success replaces T; the requests of Authenticate
\* itself, and every request while the stored token is empty, carry no
\* Authorization header.
C6_RequestsCarryStoredToken ==
    [][ (authed /\ pc = "idle") =>
           \A i \in DOMAIN call'.sent :
              /\ call'.sent[i].via =
                    (IF call'.op = "authenticate" THEN "Authenticate"
                     ELSE "doRequest")
              /\ call'.sent[i].authorization =
                    (IF call'.sent[i].via = "doRequest" /\ lastAuth # ""
                     THEN <<"Bearer ", lastAuth>> ELSE <<>>) ]_vars

\* after a successful Authenticate stored tokA, getAccounts has sent a
\* request carrying Bearer tokA
C6_Witness ==
    /\ authed
    /\ lastAuth = "tokA"
    /\ Invoked("getAccounts")
    /\ Len(call.sent) = 1
    /\ call.sent[1].authorization = <<"Bearer ", "tokA">>

---------------------------------------------------------------------------
(* C7 *)

\* the server behaviours C7 lists as failures of Authenticate: the exchange
\* fails, the body does not decode as an AuthResponse, or its errorText is
\* a non-empty string
AuthFailure(srv) ==
    \/ srv.net # "ok"
    \/ srv.body.shape # "object"
    \/ \E k \in DOMAIN srv.body.o \cap DOMAIN AuthResponse :
          srv.body.o[k].j # (IF AuthResponse[k] = "int" THEN "number" ELSE "string")
    \/ /\ "errorText" \in DOMAIN srv.body.o
       /\ srv.body.o["errorText"] # JStr("")

\* the result is Go's nil: the nil interface, or a nil pointer or slice
IsNilResult(v) == v = Nil \/ (v.t # "nil" /\ v.isNil)

\* C7: an Authenticate that fails (transport failure, undecodable body,
\* non-empty errorText) returns an error and leaves the stored token as it
\* was; at all times the stored token is the accessToken of the most recent
\* successful Authenticate, and is empty if none has succeeded.
C7_TokenIsLastSuccessfulAuth ==
    /\ accessToken = lastAuth
    /\ ~authed => accessToken = ""
    /\ Invoked("authenticate") =>
          /\ Returned
          /\ Len(call.sent) = 1
          /\ AuthFailure(call.sent[1].srv) <=> call.err # NoErr
          /\ call.err # NoErr =>
                /\ accessToken = call.tokenBefore
                /\ IsNilResult(call.res)
          /\ call.err = NoErr =>
                accessToken = call.res.v.accessToken

\* with tokB stored, an Authenticate answered with an accessToken and an
\* errorText has failed and tokB is still stored
C7_Witness ==
    /\ Invoked("authenticate")
    /\ call.tokenBefore = "tokB"
    /\ call.sent[1].srv.body =
          JObject([accessToken |-> JStr("tokA"),
                   errorText |-> JStr("Invalid credentials")])
    /\ call.err = <<"authentication failed: ", "Invalid credentials">>
    /\ accessToken = "tokB"

---------------------------------------------------------------------------
(* C8 *)

\* the body is a JSON object with a string errorText
HasErrorText(body) ==
    /\ body.shape = "object"
    /\ "errorText" \in DOMAIN body.o
    /\ body.o["errorText"].j = "string"

\* the body decodes as the error structure {errorText string}
ParsesAsError(body) ==
    /\ body.shape = "object"
    /\ "errorText" \in DOMAIN body.o => body.o["errorText"].j = "string"

\* C8: a response with status >= 400 to a request sent through doRequest is
\* never handed on as a response: doRequest returns a nil response and an
\* error that carries the status and, when the body is JSON with an
\* errorText, that text; when the body does not parse the error is the
\* status alone, and in no case does it carry a text the body did not
\* hold.  The client method returns that error to the handler.
C8_ErrorStatusBecomesError ==
    pc # "idle" =>
       \A i \in DOMAIN call.sent :
          LET x == call.sent[i]
          IN ( /\ x.via = "doRequest"
               /\ x.srv.net = "ok"
               /\ x.srv.status >= 400 ) =>
                /\ x.resp = NoResponse
                /\ x.err # NoErr
                /\ x.err[1] = "status "
                /\ x.err[2] = ToString(x.srv.status)
                /\ HasErrorText(x.srv.body) =>
                      /\ Len(x.err) = 4
                      /\ x.err[4] = x.srv.body.o["errorText"].s
                /\ ~ParsesAsError(x.srv.body) => Len(x.err) = 2
                /\ Len(x.err) > 2 =>
                      /\ Len(x.err) = 4
                      /\ x.err[3] = ": "
                      /\ x.err[4] = (IF HasErrorText(x.srv.body)
                                     THEN x.srv.body.o["errorText"].s ELSE "")
                /\ Len(call.calls) = 1
                /\ call.calls[1].err = x.err

\* a 500 with a body that is not JSON has become the error "status 500"
C8_Witness ==
    /\ Invoked("getAccounts")
    /\ Len(call.sent) = 1
    /\ call.sent[1].srv = [net |-> "ok", status |-> 500, body |-> InvalidJSON]
    /\ call.sent[1].err = <<"status ", "500">>
    /\ call.err = <<"status ", "500">>

---------------------------------------------------------------------------
(* C9 *)

InternalServerError ==
    [net |-> "ok", status |-> 500,
     body |-> JObject([errorText |-> JStr("Internal server error")])]

\* C9: whatever operation the registry delegates, when the server answers
\* 500 with {"errorText":"Internal server error"} the caller gets an error
\* containing the status 500 and the text.  Authenticate does not look at
\* the status: its error holds the text only.
C9_Status500AndTextReported ==
    ( /\ pc # "idle"
      /\ call.sent # <<>>
      /\ call.sent[1].srv = InternalServerError )
    => /\ Returned
       /\ call.err # NoErr
       /\ Names(call.err, "500")
       /\ Names(call.err, "Internal server error")

---------------------------------------------------------------------------
(* C10 *)

---------------------------------------------------------------------------
(* C11 *)

\* the line is a JSON object whose id and method, where present, are
\* strings: a request envelope
ParsesAsRequest(text) ==
    /\ text.shape = "object"
    /\ \A k \in {"id", "method"} \cap DOMAIN text.o : text.o[k].j = "string"

\* the string a line gives for this field of the envelope, "" when it
\* gives none
FieldOf(text, k) ==
    IF text.shape = "object" /\ k \in DOMAIN text.o /\ text.o[k].j = "string"
    THEN text.o[k].s
    ELSE ""

\* the response has the key
Carries(resp, k) == k \in DOMAIN resp

\* C11: the loop is strictly sequential.  It has written exactly one
\* response for every line it has read and finished, in the order read;
\* a line is read only when every earlier line has its response, so that
\* at most one line is unanswered and only while the loop body runs;
\* response k carries the id of line k and exactly one of result and
\* error; and one iteration makes at most one client call and one HTTP
\* exchange.
C11_StrictlySequential ==
    /\ Len(stdin) - Len(stdout) = (IF mpc = "body" THEN 1 ELSE 0)
    /\ Len(served) = Len(stdout)
    /\ \A k \in DOMAIN stdout :
          /\ Carries(stdout[k], "id")
          /\ stdout[k]["id"] = FieldOf(stdin[k], "id")
          /\ Carries(stdout[k], "result") # Carries(stdout[k], "error")
          /\ k \in DOMAIN served =>
                /\ Len(served[k].calls) <= 1
                /\ Len(served[k].sent) <= 1

\* two lines read and answered in order: an authenticate that reached the
\* server and failed, then a ping
C11_Witness ==
    /\ mpc = "scan"
    /\ stdin = <<JObject([id |-> JStr("1"), method |-> JStr("authenticate")]),
                 JObject([id |-> JStr("2"), method |-> JStr("ping")])>>
    /\ Len(stdout) = 2
    /\ Carries(stdout[1], "error")
    /\ stdout[1]["id"] = "1"
    /\ Len(served[1].sent) = 1
    /\ stdout[2] = [id |-> "2", result |-> ValOf("string", "pong")]

---------------------------------------------------------------------------
(* C12 *)

\* C12: a well-formed request naming a registered operation is dispatched
\* to that operation's handler and is not answered as an unknown method.
\* main knows ping and authenticate only: the other ten operations are
\* answered with error 404 "Unknown method".
C12_RegisteredMethodDispatched ==
    \A k \in DOMAIN stdout :
       ( /\ k \in DOMAIN served
         /\ ParsesAsRequest(stdin[k])
         /\ FieldOf(stdin[k], "method") \in Operations )
       => /\ served[k].handler # "none"
          /\ ~( /\ Carries(stdout[k], "error")
                /\ stdout[k]["error"].code = 404 )

---------------------------------------------------------------------------
(* C13 *)

\* C13: a line that does not parse as a request envelope is answered with
\* exactly one response, which is an error {code, message} with code 400
\* and no result; no handler and no client method is invoked for it, no
\* request is sent and the stored token is untouched; and the loop is back
\* at its top, ready to read the next line.
C13_MalformedLineRejected ==
    /\ \A k \in DOMAIN stdin :
          ~ParsesAsRequest(stdin[k]) =>
             /\ (k = Len(stdin) /\ mpc = "body") \/ k \in DOMAIN stdout
             /\ k \in DOMAIN stdout =>
                   /\ Len(stdout) >= Len(stdin) - 1
                   /\ DOMAIN stdout[k] = {"id", "error"}
                   /\ DOMAIN stdout[k]["error"] = {"code", "message"}
                   /\ stdout[k]["error"].code = 400
                   /\ k \in DOMAIN served
                   /\ served[k].handler = "none"
                   /\ served[k].calls = <<>>
                   /\ served[k].sent = <<>>
    /\ ( /\ stdin # <<>>
         /\ ~ParsesAsRequest(stdin[Len(stdin)])
         /\ Len(stdout) = Len(stdin) )
       => mpc \in {"scan", "returned", "fatal"}
    /\ (\A k \in DOMAIN stdin : ~ParsesAsRequest(stdin[k])) => accessToken = ""

\* text that is not JSON was answered with error 400 and the loop has read
\* the next line
C13_Witness ==
    /\ Len(stdin) = 2
    /\ stdin[1] = InvalidJSON
    /\ mpc = "body"
    /\ stdout = <<[id |-> "",
                   error |-> [code |-> 400,
                              message |-> <<"Invalid request: ",
                                            "invalid character">>]]>>

---------------------------------------------------------------------------
(* C14 *)

\* C14: no failure is fatal.  Whatever the handler and the parameter map,
\* the invocation comes back with a result or an error and the process
\* lives on to take the next request.  The handlers that read a parameter
\* with a bare type assertion panic on a missing or wrongly typed value,
\* and nothing recovers the panic.
C14_NoInvocationAborts ==
    /\ pc # "crashed"
    /\ pc = "done" => ~call.panicked

---------------------------------------------------------------------------
(* C15 *)

\* parameter f is a string that time.Parse does not accept
Unparsable(params, f) ==
    IsString(params, f) /\ params[f].s \notin DOMAIN RFC3339

---------------------------------------------------------------------------
(* C16 *)

\* C16: two timestamps that parse, with endTime earlier than startTime
\* (contractId and interval being in order), are refused with the error
\* "end time must be after start time" and the client is not called.  The
\* handler does not compare the two times: it delegates.
C16_EndBeforeStartRejected ==
    ( /\ Invoked("getHistoricalData")
      /\ \A f \in TimeFields : WellFormed(call.params, f)
      /\ WellTyped(call.params, "contractId")
      /\ WellTyped(call.params, "interval")
      /\ RFC3339[call.params["endTime"].s] < RFC3339[call.params["startTime"].s] )
    => /\ Returned
       /\ call.err = <<"end time must be after start time">>
       /\ NoClientCall

---------------------------------------------------------------------------
(* C17 *)

\* C17: setRiskLimits with valid parameters returns {success: true} and no
\* error when client.SetRiskLimits succeeds, and the client's error when it
\* fails.  The handler returns nil, client.SetRiskLimits(limits): on
\* success its result is nil.
C17_SetRiskLimitsReportsSuccess ==
    ( /\ Invoked("setRiskLimits")
      /\ PassesValidation("setRiskLimits", call.params) )
    => /\ Returned
       /\ Len(call.calls) = 1
       /\ call.calls[1].err = NoErr =>
             /\ call.err = NoErr
             /\ call.res = ValOf("map[string]bool", [success |-> TRUE])
       /\ call.calls[1].err # NoErr =>
             call.err = call.calls[1].err

---------------------------------------------------------------------------
(* C18 *)

Abs(n) == IF n >= 0 THEN n ELSE -n

\* the integer part of the float64 whose double is h
TowardZero(h) ==
    CHOOSE n \in -Abs(h) .. Abs(h) :
       /\ 2 * Abs(n) <= Abs(h)
       /\ 2 * Abs(n) + 2 > Abs(h)
       /\ n > 0 => h > 0
       /\ n < 0 => h < 0

\* C18: cancelOrder with a numeric orderId calls client.CancelOrder once
\* with the id truncated to an integer; if the client returns no error the
\* result is {success: true} and the error nil, and if it returns an error
\* the result is nil and the error is the client's.
C18_CancelOrderWrapsSuccess ==
    ( /\ Invoked("cancelOrder")
      /\ WellTyped(call.params, "orderId") )
    => /\ Returned
       /\ Len(call.calls) = 1
       /\ call.calls[1].method = "CancelOrder"
       /\ call.calls[1].args = <<TowardZero(call.params["orderId"].h)>>
       /\ call.calls[1].err = NoErr =>
             /\ call.err = NoErr
             /\ call.res = ValOf("map[string]bool", [success |-> TRUE])
       /\ call.calls[1].err # NoErr =>
             /\ call.err = call.calls[1].err
             /\ call.res = Nil

\* orderId 1.5 was cancelled as order 1 and the handler reports success
C18_Witness ==
    /\ Invoked("cancelOrder")
    /\ Returned
    /\ WellTyped(call.params, "orderId")
    /\ call.params["orderId"] = Num(3)
    /\ call.calls[1].args = <<1>>
    /\ call.err = NoErr
    /\ call.res = ValOf("map[string]bool", [success |-> TRUE])

---------------------------------------------------------------------------
(* C19 *)

\* the parameters placeOrder reads, in the order it reads them
PlaceOrderFields ==
    <<"accountId", "contractId", "orderType", "quantity", "timeInForce", "price">>

\* parameter f of placeOrder is present with a value of the wrong type;
\* for price this counts on a Limit order only
WrongType(params, f) ==
    /\ Has(params, f)
    /\ ~WellTyped(params, f)
    /\ f = "price" => /\ IsString(params, "orderType")
                      /\ params["orderType"].s = "Limit"

\* C19: in placeOrder with the five required parameters present, the first
\* parameter of the wrong type is reported as a wrong-type error naming it,
\* an error that is neither the missing-field nor the missing-price error,
\* and the client is not called.  A price of the wrong type on a Limit
\* order gets the error of a missing price.
C19_WrongTypeReported ==
    ( /\ Invoked("placeOrder")
      /\ \A f \in Range(Required("placeOrder")) : Has(call.params, f)
      /\ \E i \in DOMAIN PlaceOrderFields :
            WrongType(call.params, PlaceOrderFields[i]) )
    => /\ Returned
       /\ call.err =
             <<"invalid type assertion for ",
               First(PlaceOrderFields, LAMBDA f : WrongType(call.params, f))>>
       /\ call.res = Nil
       /\ NoClientCall

---------------------------------------------------------------------------
(* C20 *)

\* C20: when the validation of placeOrder passes, client.PlaceOrder is
\* called exactly once with an Order whose accountId, contractId and
\* quantity are the parameters truncated to integers, whose orderType and
\* timeInForce are the string parameters and whose price, for a Limit
\* order, is the price parameter; the handler returns the client's Order
\* and error as they are.
C20_OrderBuiltAndDelegated ==
    ( /\ Invoked("placeOrder")
      /\ PassesValidation("placeOrder", call.params) )
    => /\ Returned
       /\ Len(call.calls) = 1
       /\ Len(call.sent) = 1
       /\ call.calls[1].method = "PlaceOrder"
       /\ Len(call.calls[1].args) = 1
       /\ LET order == call.calls[1].args[1]
          IN /\ order.accountId = TowardZero(call.params["accountId"].h)
             /\ order.contractId = TowardZero(call.params["contractId"].h)
             /\ order.quantity = TowardZero(call.params["quantity"].h)
             /\ order.orderType = call.params["orderType"].s
             /\ order.timeInForce = call.params["timeInForce"].s
             /\ order.orderType = "Limit" =>
                   order.price = call.params["price"].h
             /\ order.id = 0
             /\ call.sent[1].body = ValOf("Order", order)
       /\ call.res = call.calls[1].ret
       /\ call.err = call.calls[1].err

\* a Limit order at price 1.5 for account -1.5 was sent as account -1 and
\* came back from the client with id 67890
C20_Witness ==
    /\ Invoked("placeOrder")
    /\ Returned
    /\ Len(call.calls) = 1
    /\ call.params["accountId"] = Num(-3)
    /\ call.params["orderType"] = Str("Limit")
    /\ call.calls[1].args[1].accountId = -1
    /\ call.calls[1].args[1].price = 3
    /\ call.err = NoErr
    /\ ~call.res.isNil
    /\ call.res.v.id = 67890

---------------------------------------------------------------------------
(* C21 *)

\* the parameter a single-identifier lookup reads
LookupField(op) == IF op = "getMarketData" THEN "contractId" ELSE "accountId"

\* C21: getMarketData with a contractId, and getRiskLimits with an
\* accountId, that is not a number or is negative return an error naming
\* the field and do not call the client.  Neither handler checks its
\* parameter: a value that is not a float64 panics in the type assertion
\* and a negative one is truncated and passed to the client.
C21_LookupIdValidated ==
    \A op \in {"getMarketData", "getRiskLimits"} :
       ( /\ Invoked(op)
         /\ Has(call.params, LookupField(op))
         /\ \/ ~IsFloat64(call.params, LookupField(op))
            \/ call.params[LookupField(op)].h < 0 )
       => /\ Returned
          /\ call.err # NoErr
          /\ \E i \in DOMAIN call.err :
                call.err[i] \in {LookupField(op),
                                 "invalid " \o LookupField(op),
                                 "invalid type assertion for " \o LookupField(op)}
          /\ NoClientCall

---------------------------------------------------------------------------
(* C22 *)

\* the domain type each decoding client method expects in the body: a
\* list of, or a single, object of the given fields
Expected ==
    [Authenticate |-> [list |-> FALSE, fields |-> AuthResponse],
     GetAccounts |-> [list |-> TRUE, fields |-> Account],
     GetPositions |-> [list |-> TRUE, fields |-> Position],
     GetContracts |-> [list |-> TRUE, fields |-> Contract],
     GetMarketData |-> [list |-> FALSE, fields |-> MarketData],
     GetHistoricalData |-> [list |-> TRUE, fields |-> HistoricalData],
     GetFills |-> [list |-> TRUE, fields |-> Fill],
     GetRiskLimits |-> [list |-> FALSE, fields |-> RiskLimit],
     PlaceOrder |-> [list |-> FALSE, fields |-> Order]]

\* every known field of the JSON object has a value of the field's type
ObjectMatches(o, fields) ==
    \A k \in DOMAIN o \cap DOMAIN fields : Fits(o[k], fields[k])

\* the body is JSON of the expected domain type
DecodesAs(body, e) ==
    IF e.list
    THEN /\ body.shape = "array"
         /\ \A i \in DOMAIN body.a : ObjectMatches(body.a[i], e.fields)
    ELSE /\ body.shape = "object"
         /\ ObjectMatches(body.o, e.fields)

---------------------------------------------------------------------------
(* C23 *)

\* the HTTP exchange ended in failure: no connection or a timeout, or a
\* status >= 400
FailedExchange(x) == x.srv.net # "ok" \/ x.srv.status >= 400

\* C23: nothing is retried.  A handler invocation makes at most one client
\* method call and a client method call sends at most one HTTP request,
\* whether the request succeeds or fails; an invocation that makes no
\* client call sends nothing.
C23_NothingRetried ==
    pc # "idle" =>
       /\ Len(call.calls) <= 1
       /\ Len(call.sent) <= 1
       /\ call.calls = <<>> => call.sent = <<>>
       /\ \A i \in DOMAIN call.sent :
             FailedExchange(call.sent[i]) => Len(call.sent) = 1

\* GetFills timed out and the one request was all that was sent
C23_Witness ==
    /\ Invoked("getFills")
    /\ Len(call.calls) = 1
    /\ Len(call.sent) = 1
    /\ call.sent[1].srv.net = "context deadline exceeded"
    /\ call.err = <<"error sending request: ", "context deadline exceeded">>

---------------------------------------------------------------------------
(* C24 *)

\* C24: every line that is read is eventually answered by a response line,
\* every HTTP call completing or running into the client's timeout; and
\* once standard input has ended the loop has terminated, for good.
C24_AnsweredAndTerminates ==
    /\ (mpc = "body") ~> (mpc # "body" /\ Len(stdout) = Len(stdin))
    /\ <>[](mpc \in {"returned", "fatal"})

\* input ended after two lines, both answered, the first an authenticate
\* whose HTTP call ran into the timeout
C24_Witness ==
    /\ mpc = "returned"
    /\ Len(stdin) = 2
    /\ Len(stdout) = 2
    /\ Len(served[1].sent) = 1
    /\ served[1].sent[1].srv.net = "context deadline exceeded"
    /\ stdout[1]["error"].code = 401

---------------------------------------------------------------------------
(* C25 *)

---------------------------------------------------------------------------
(* C26 *)

\* C26: only Authenticate writes the client's access token.  After an
\* invocation of any registry handler other than authenticate, and so
\* after any client method other than Authenticate, the stored token is
\* the one held before the invocation, whether the call returned a value,
\* returned an error or never reached the client.
C26_OnlyAuthenticateWrites ==
    (pc \in {"done", "crashed"} /\ call.op # "authenticate") =>
       /\ accessToken = call.tokenBefore
       /\ \A i \in DOMAIN call.calls : call.calls[i].method # "Authenticate"

\* a token is held and a request carrying it was refused by the server:
\* the token is still held
C26_Witness ==
    /\ pc = "done"
    /\ call.op = "getAccounts"
    /\ call.tokenBefore = "tokA"
    /\ Len(call.sent) = 1
    /\ call.sent[1].srv.net = "ok"
    /\ call.sent[1].srv.status = 401
    /\ call.err # NoErr
    /\ accessToken = "tokA"

---------------------------------------------------------------------------
(* C27 *)

\* the body the server sent decodes into an AuthResponse whose errorText is
\* empty
AcceptedBody(srv) ==
    /\ srv.net = "ok"
    /\ DecodeStruct(srv.body, AuthResponse).ok
    /\ DecodeStruct(srv.body, AuthResponse).v.errorText = ""

\* C27: Authenticate decides success from the decoded body alone.  Whenever
\* the response body decodes with an empty errorText, whatever the HTTP
\* status, Authenticate returns no error and the stored token becomes the
\* body's accessToken, the empty string included; and a request sent while
\* the stored token is empty carries no Authorization header.
C27_BodyDecides ==
    /\ (pc = "done" /\ call.op = "authenticate"
        /\ AcceptedBody(call.sent[1].srv)) =>
          /\ call.err = NoErr
          /\ accessToken =
                DecodeStruct(call.sent[1].srv.body, AuthResponse).v.accessToken
    /\ (pc = "done" /\ call.tokenBefore = "") =>
          \A i \in DOMAIN call.sent : call.sent[i].authorization = <<>>

\* a client holding tokA authenticated, the server answered 401 with a body
\* that names neither a token nor an error, and the stored token is now
\* empty
C27_Witness ==
    /\ pc = "done"
    /\ call.op = "authenticate"
    /\ call.tokenBefore = "tokA"
    /\ call.sent[1].srv.net = "ok"
    /\ call.sent[1].srv.status = 401
    /\ call.sent[1].srv.body = JObject(<<>>)
    /\ call.err = NoErr
    /\ accessToken = ""

---------------------------------------------------------------------------
(* C28 *)

\* the operations whose client method returns only an error, with the words
\* of its message
OnlyError == [cancelOrder |-> "cancel order", setRiskLimits |-> "set risk limits"]

\* C28: CancelOrder and SetRiskLimits succeed only on status 200.  When the
\* server answers a cancelOrder or setRiskLimits request with a status
\* below 400 other than 200, the client method and the handler return the
\* error "failed to <what>: status N" and no result; the handler returns a
\* nil error only when the status was exactly 200.
C28_Only200Succeeds ==
    (pc = "done" /\ call.op \in DOMAIN OnlyError /\ Len(call.sent) = 1
     /\ call.sent[1].srv.net = "ok") =>
       /\ (call.sent[1].srv.status < 400 /\ call.sent[1].srv.status # 200) =>
             /\ call.err = <<"failed to ", OnlyError[call.op], ": status ",
                             ToString(call.sent[1].srv.status)>>
             /\ call.calls[1].err = call.err
             /\ call.res = Nil
       /\ call.err = NoErr => call.sent[1].srv.status = 200

\* the server answered a cancelOrder with 201 and the handler returned
\* "failed to cancel order: status 201"
C28_Witness ==
    /\ pc = "done"
    /\ call.op = "cancelOrder"
    /\ Len(call.sent) = 1
    /\ call.sent[1].srv.net = "ok"
    /\ call.sent[1].srv.status = 201
    /\ call.err = <<"failed to ", "cancel order", ": status ", "201">>

---------------------------------------------------------------------------
(* C29 *)

\* C29: placeOrder ignores the price of an order that is not a Limit order.
\* With the five required fields present and well typed and an orderType
\* other than "Limit", the handler calls client.PlaceOrder once with an
\* Order whose price is 0, whether the price parameter is absent, a number
\* or a value of another type, and the error it returns is the client's,
\* never the missing-price error.
C29_PriceIgnored ==
    ( /\ Invoked("placeOrder")
      /\ FiveWellTyped(call.params)
      /\ call.params["orderType"].s # "Limit" )
    => /\ Returned
       /\ Len(call.calls) = 1
       /\ call.calls[1].method = "PlaceOrder"
       /\ call.calls[1].args[1].price = 0
       /\ call.calls[1].args[1].orderType = call.params["orderType"].s
       /\ call.sent[1].body = ValOf("Order", call.calls[1].args[1])
       /\ call.err = call.calls[1].err
       /\ call.err # <<"price", " is required for Limit orders">>

\* a Market order with price 1.5 went to the client with price 0
C29_Witness ==
    /\ Invoked("placeOrder")
    /\ FiveWellTyped(call.params)
    /\ call.params["orderType"].s = "Market"
    /\ Has(call.params, "price")
    /\ call.params["price"] = Num(3)
    /\ Len(call.calls) = 1
    /\ call.calls[1].args[1].price = 0

---------------------------------------------------------------------------
(* C30 *)

\* the parameters of setRiskLimits in the order the handler looks at them
RiskFields ==
    <<"accountId", "dayMaxLoss", "maxDrawdown", "maxPositionQty", "trailingStop">>

\* what the handler refuses of parameter f: accountId when it is missing or
\* not a number, a limit also when it is negative
Refused(params, f) ==
    IF f = "accountId" THEN ~IsFloat64(params, f) ELSE ~WellFormed(params, f)

\* C30: setRiskLimits looks at accountId, dayMaxLoss, maxDrawdown,
\* maxPositionQty, trailingStop in that order and reports only the first
\* that is missing, not a number or (the four limits) negative, without
\* calling the client; when none is, the client is called once with the
\* truncated accountId, a negative one included.
C30_FirstRefusedReported ==
    Invoked("setRiskLimits") =>
       LET Bad(f) == Refused(call.params, f)
       IN /\ Returned
          /\ (\E i \in DOMAIN RiskFields : Bad(RiskFields[i])) =>
                /\ call.err = <<"missing or invalid ", First(RiskFields, Bad)>>
                /\ call.res = Nil
                /\ NoClientCall
          /\ (\A i \in DOMAIN RiskFields : ~Bad(RiskFields[i])) =>
                /\ Len(call.calls) = 1
                /\ call.calls[1].method = "SetRiskLimits"
                /\ call.calls[1].args[1].accountId =
                      Trunc(call.params["accountId"].h)
                /\ Len(call.sent) = 1
                /\ call.err = call.calls[1].err

\* accountId -1.5 with four acceptable limits went to the client as
\* account -1
C30_Witness ==
    /\ Invoked("setRiskLimits")
    /\ \A i \in DOMAIN RiskFields : Has(call.params, RiskFields[i])
    /\ call.params["accountId"] = Num(-3)
    /\ \A i \in DOMAIN Limits : WellFormed(call.params, Limits[i])
    /\ Len(call.calls) = 1
    /\ call.calls[1].args[1].accountId = -1
    /\ Len(call.sent) = 1

=============================================================================
